---- MODULE Spec2Model ----
(***************************************************************************)
(* Model of the 5S audit board (routes.py, models.py, utils.py).           *)
(*                                                                         *)
(* The committed database is the five tables/stores below.  A request      *)
(* handler runs as a sequence of steps; every step is one SQL statement    *)
(* (or one run of statements that only touch the request's own data), and  *)
(* the part of a handler from its first DML statement to its commit is one *)
(* step, applied to the committed database as a whole or not at all.       *)
(* Reads see the committed database at the time of the step.               *)
(*                                                                         *)
(* Row ids are the integer primary keys of models.py: a new row gets the   *)
(* largest id of its table plus one, so a table that was emptied numbers   *)
(* its rows from 1 again.  Machine k is row k of machines, and so on.      *)
(* Unique constraints are enforced at commit; foreign keys are not.        *)
(***************************************************************************)
EXTENDS Naturals, Sequences, FiniteSets, TLC

VARIABLES
    machines,        \* Machine table: sequence of names, id = index
    questions,       \* Question table: sequence of codes, id = index
    sessions,        \* AuditSession table: sequence of rows, id = index
    audits,          \* Audit table: sequence of rows, id = index
    photos,          \* photo store: the set of stored photo files
    cycle_start,     \* history: the number of Audit rows when the current token set was made
    pc,              \* per request: position in its handler
    result,          \* per request: the response of the finished handler
    session,         \* per request: the AuditSession row object it loaded
    form,            \* per request: the validated form fields it carries
    photo_path,      \* per request: local photo_path
    upload,          \* per request: history, what happened to the photo upload
    audit_sequence,  \* per request: local audit_sequence
    pairs,           \* per request: machine and question counts read by _create_new_audit_session
    saved,           \* history: per Audit id, the opis_dzialania of the last save_action that succeeded
    reply            \* per request: the data a dashboard handler returns

store  == <<machines, questions, sessions, audits, photos>>
locals == <<session, form, photo_path, upload, audit_sequence, pairs>>
vars   == <<machines, questions, sessions, audits, photos, cycle_start,
            pc, result, session, form, photo_path, upload, audit_sequence, pairs,
            saved, reply>>

----------------------------------------------------------------------------
(* Bounds and inputs *)

\* no more Audit rows than this are committed
MaxAudits == 3
\* the same, where two requests run at once
MaxRaceAudits == 2
\* the same, for the client that works through one cycle
MaxClientAudits == 4

Requests == {"r1", "r2"}

\* the imported workbooks: sheet count, first column of sheet 1, codes of sheet 2
TwoQuestions == [sheets |-> 2, machines |-> <<"A">>,      questions |-> <<"X", "Y">>]
TwoMachines  == [sheets |-> 2, machines |-> <<"A", "B">>, questions |-> <<"X">>]
NoMachines   == [sheets |-> 2, machines |-> <<>>,         questions |-> <<"X">>]
SameMachines == [sheets |-> 2, machines |-> <<"A", "A">>, questions |-> <<"X">>]
OneSheet     == [sheets |-> 1, machines |-> <<>>,         questions |-> <<>>]
TwoByTwo     == [sheets |-> 2, machines |-> <<"A", "B">>, questions |-> <<"X", "Y">>]

\* request.form values; "" is a missing or empty field, session_id 0 a missing
\* one, session_id 3 the id of no row
SessionIdInputs   == 0 .. 3
DescriptionInputs == {"", "d"}
PasswordInputs    == {"4321", "0000"}

\* photo filename extensions offered by a client ("" : no dot in the name)
PhotoExts == {"jpg", "JPG", "png", "gif", "heic", "exe", ""}

\* what the clients of a specification send: the status values, the ways a
\* photo is attached, the workbooks, and the cap on committed Audit rows
OneAtATime == [status |-> {"", "OK"}, via |-> {"none", "file", "base64"},
               files |-> {TwoQuestions, TwoMachines, NoMachines, SameMachines, OneSheet},
               max_audits |-> MaxAudits]
Racing     == [status |-> {"", "OK"}, via |-> {"none"},
               files |-> {TwoQuestions, NoMachines, SameMachines, OneSheet},
               max_audits |-> MaxRaceAudits]

\* clients that send any text as the status, to one machine with two questions
AnyStatus  == [status |-> {"", "OK", "NOK", "MAYBE"}, via |-> {"none"},
               files |-> {TwoQuestions},
               max_audits |-> MaxRaceAudits]

\* the client that audits pair after pair: valid forms without a photo
Client     == [status |-> {"OK"}, via |-> {"none"},
               files |-> {TwoQuestions, TwoMachines, TwoByTwo},
               max_audits |-> MaxClientAudits]

\* save_action: request.form audit_id (0: missing; the ids of the first two
\* Audit rows) and opis_dzialania ("": missing)
ActionIdInputs == 0 .. 2
ActionInputs   == {"", "a", "b"}
\* get_audit_data: the machine_id and audit_sequence of the URL
MachineIdInputs == 1 .. 2
SequenceInputs  == 1 .. 2

\* clients of the dashboard: one machine with two questions
Reviewing  == [status |-> {"", "OK"}, via |-> {"none"},
               files |-> {TwoQuestions},
               max_audits |-> MaxRaceAudits]

\* a NULL column, None
NULL == "NULL"
\* the file upload_photo_local writes and the reference it returns
PhotoFile == "uploads/audit_photos/photo.jpg"
NoSession == [id |-> 0, machine_id |-> 0, question_id |-> 0]
NoForm    == [status |-> "", description |-> ""]
NoSaved   == [i \in ActionIdInputs \ {0} |-> ""]
NoReply == [audit_id |-> 0, opis_dzialania |-> "", audit_matrix |-> <<>>, total_audits |-> <<>>]

----------------------------------------------------------------------------
(* models.py *)

\* AuditSession row (models.py 46-55)
AuditSession(m, q, u) == [machine_id |-> m, question_id |-> q, used |-> u]

\* Audit row (models.py 30-41)
Audit_NoPhoto(m, q, st, d, p, n) ==
    [machine_id |-> m, question_id |-> q, status |-> st, description |-> d,
     photo_path |-> NULL, audit_sequence |-> n]
Audit(m, q, st, d, p, n) ==
    [machine_id |-> m, question_id |-> q, status |-> st, description |-> d,
     photo_path |-> p, audit_sequence |-> n]

\* the mapped columns of Audit (models.py 32-41)
AuditColumns ==
    {"id", "machine_id", "question_id", "status", "description", "photo_path",
     "created_at", "auditor_name", "action_completed", "audit_sequence"}

AttributeError == "AttributeError"

\* audit.<name> on a row loaded from the table: a name that is no column of the
\* model raises AttributeError; a column the rows here do not carry reads NULL
HasAttribute(name) == name \in AuditColumns

ReadAttribute(row, name) ==
    IF ~HasAttribute(name) THEN AttributeError
    ELSE IF name \in DOMAIN row THEN row[name] ELSE NULL

\* the row after a commit that follows the assignments audit.<name> = value:
\* the UPDATE writes the mapped columns; other names are attributes of the
\* Python object only and end with the request
Persist_Description(row, assigned) == [row EXCEPT !.description = assigned.opis_dzialania]
Persist(row, assigned) ==
    [c \in DOMAIN row |-> IF c \in DOMAIN assigned \cap AuditColumns THEN assigned[c] ELSE row[c]]

Range(s) == {s[i] : i \in DOMAIN s}

\* unique=True on Machine.name and Question.code (models.py 8, 20)
UniqueNames(s) == \A i, j \in DOMAIN s : s[i] = s[j] => i = j

\* UniqueConstraint('machine_id', 'question_id') (models.py 55)
unique_machine_question_Unchecked(rows) == TRUE
unique_machine_question(rows) ==
    \A i, j \in DOMAIN rows :
        (rows[i].machine_id = rows[j].machine_id /\
         rows[i].question_id = rows[j].question_id) => i = j

\* AuditSession.query.filter_by(used=False)
Unused == {i \in DOMAIN sessions : ~sessions[i].used}

\* Audit.query.filter_by(machine_id=m).count()
MachineAuditCount(m) == Cardinality({i \in DOMAIN audits : audits[i].machine_id = m})

----------------------------------------------------------------------------
(* utils.py, upload_photo_local *)

Lower(ext) == IF ext = "JPG" THEN "jpg" ELSE ext

\* utils.py 5
UTILS_ALLOWED_EXTENSIONS == {"png", "jpg", "jpeg", "gif"}
\* routes.py 18
ALLOWED_EXTENSIONS == {"jpg", "jpeg", "png", "heic", "heif"}

\* utils.py 7-10; the filename is modelled by its extension
allowed_file(ext) == ext # "" /\ Lower(ext) \in UTILS_ALLOWED_EXTENSIONS

\* routes.py 20-94: the extension check, then the write, which may throw
\* (caught, None).  TRUE when a file is written and a reference returned.
upload_photo_local(ext, storeOk) ==
    Lower(ext) \in ALLOWED_EXTENSIONS /\ storeOk

----------------------------------------------------------------------------
(* _create_new_audit_session, routes.py 450-473 *)

Injective(f) == \A a, b \in DOMAIN f : f[a] = f[b] => a = b

\* routes.py 455-466: every machine with every question, as unused rows, in
\* any order (random.shuffle)
ShuffledPairs(nm, nq) ==
    LET P == (1 .. nm) \X (1 .. nq)
        n == nm * nq
    IN  { [i \in 1 .. n |-> AuditSession(f[i][1], f[i][2], FALSE)] :
            f \in {g \in [1 .. n -> P] : Injective(g)} }

\* routes.py 468-472: the rows are added after the rows the table holds; the
\* commit raises IntegrityError when a pair is already in the table
CreateNewAuditSession_Replacing(existing, nm, nq) == ShuffledPairs(nm, nq)
CreateNewAuditSession(existing, nm, nq) ==
    {t \in {existing \o new : new \in ShuffledPairs(nm, nq)} :
        unique_machine_question(t)}

----------------------------------------------------------------------------
(* Requests *)

Init ==
    /\ machines = <<>>
    /\ questions = <<>>
    /\ sessions = <<>>
    /\ audits = <<>>
    /\ photos = {}
    /\ cycle_start = 0
    /\ pc = [r \in Requests |-> "idle"]
    /\ result = [r \in Requests |-> ""]
    /\ session = [r \in Requests |-> NoSession]
    /\ form = [r \in Requests |-> NoForm]
    /\ photo_path = [r \in Requests |-> NULL]
    /\ upload = [r \in Requests |-> "none"]
    /\ audit_sequence = [r \in Requests |-> 0]
    /\ pairs = [r \in Requests |-> <<0, 0>>]
    /\ saved = NoSaved
    /\ reply = [r \in Requests |-> NoReply]

Goto(r, label) ==
    /\ pc' = [pc EXCEPT ![r] = label]
    /\ UNCHANGED result

\* the request's own objects are dropped; what happened to its photo upload
\* is remembered until the response is delivered
Drop(r) ==
    /\ form' = [form EXCEPT ![r] = NoForm]
    /\ photo_path' = [photo_path EXCEPT ![r] = NULL]
    /\ UNCHANGED upload
    /\ audit_sequence' = [audit_sequence EXCEPT ![r] = 0]
    /\ pairs' = [pairs EXCEPT ![r] = <<0, 0>>]

\* the handler returns its response
Finish(r, response) ==
    /\ pc' = [pc EXCEPT ![r] = "done"]
    /\ result' = [result EXCEPT ![r] = response]
    /\ session' = [session EXCEPT ![r] = NoSession]
    /\ Drop(r)

Load(r, id) ==
    session' = [session EXCEPT ![r] =
        [id |-> id, machine_id |-> sessions[id].machine_id,
         question_id |-> sessions[id].question_id]]

\* routes.py 119-125: the page shows the pair of the row and carries its id
FinishPair(r, id) ==
    /\ pc' = [pc EXCEPT ![r] = "done"]
    /\ result' = [result EXCEPT ![r] = "pair"]
    /\ Load(r, id)
    /\ Drop(r)

\* the response is delivered
Return(r) ==
    /\ pc[r] = "done"
    /\ pc' = [pc EXCEPT ![r] = "idle"]
    /\ result' = [result EXCEPT ![r] = ""]
    /\ session' = [session EXCEPT ![r] = NoSession]
    /\ upload' = [upload EXCEPT ![r] = "none"]
    /\ reply' = [reply EXCEPT ![r] = NoReply]
    /\ UNCHANGED <<store, cycle_start, saved, form, photo_path, audit_sequence, pairs>>

----------------------------------------------------------------------------
(* index, routes.py 96-125 *)

\* routes.py 100-103: machine_count == 0 or question_count == 0
NoData == Len(machines) = 0 \/ Len(questions) = 0

\* routes.py 99-105
IndexCount(r) ==
    /\ pc[r] = "idle"
    /\ IF NoData
          THEN Finish(r, "no_data")
          ELSE Goto(r, "index_first") /\ UNCHANGED locals
    /\ UNCHANGED <<store, cycle_start, saved, reply>>

\* AuditSession.query.filter_by(used=False).first(): some unused row, if any
FirstUnused_AnyToken == DOMAIN sessions
FirstUnused == Unused

\* routes.py 108-110; with a row, 119-125
IndexFirst(r) ==
    /\ pc[r] = "index_first"
    /\ \/ /\ FirstUnused = {}
          /\ Goto(r, "index_create")
          /\ UNCHANGED locals
       \/ \E id \in FirstUnused : FinishPair(r, id)
    /\ UNCHANGED <<store, cycle_start, saved, reply>>

\* routes.py 452-453, called from line 112
IndexCreate(r) ==
    /\ pc[r] = "index_create"
    /\ pairs' = [pairs EXCEPT ![r] = <<Len(machines), Len(questions)>>]
    /\ Goto(r, "index_commit")
    /\ UNCHANGED <<store, cycle_start, saved, reply, session, form, photo_path, upload, audit_sequence>>

\* routes.py 468-472, called from line 112; index catches nothing, so an
\* IntegrityError ends the request with an error response
IndexCommit(r) ==
    /\ pc[r] = "index_commit"
    /\ \/ \E t \in CreateNewAuditSession(sessions, pairs[r][1], pairs[r][2]) :
             /\ sessions' = t
             /\ cycle_start' = IF sessions = <<>> THEN Len(audits) ELSE cycle_start
             /\ UNCHANGED <<saved, reply>>
             /\ Goto(r, "index_again")
             /\ UNCHANGED locals
       \/ /\ CreateNewAuditSession(sessions, pairs[r][1], pairs[r][2]) = {}
          /\ Finish(r, "integrity_error")
          /\ UNCHANGED <<sessions, cycle_start, saved, reply>>
       \/ /\ Finish(r, "storage_error")  \* storage failure
          /\ UNCHANGED <<sessions, cycle_start, saved, reply>>
    /\ UNCHANGED <<machines, questions, audits, photos>>

\* routes.py 113-125
IndexAgain(r) ==
    /\ pc[r] = "index_again"
    /\ \/ /\ FirstUnused = {}
          /\ Finish(r, "completed")
       \/ \E id \in FirstUnused : FinishPair(r, id)
    /\ UNCHANGED <<store, cycle_start, saved, reply>>

----------------------------------------------------------------------------
(* submit_audit, routes.py 127-254; submit_audit_mobile, routes.py 564-631 *)

\* not all([session_id, status, description]): routes.py 142, 577
MissingField_NoDescription(sid, st, d) == sid = 0 \/ st = ""
MissingField(sid, st, d) == sid = 0 \/ st = "" \/ d = ""

\* not session or session.used: routes.py 147-148, 580-581
InvalidSession_UnknownOnly(sid) == sid \notin DOMAIN sessions
InvalidSession(sid) == sid \notin DOMAIN sessions \/ sessions[sid].used

\* routes.py 227-228, 584-585
NextAuditSequence_AllMachines(m) == Len(audits) + 1
NextAuditSequence(m) == MachineAuditCount(m) + 1

\* routes.py 134-150 and 570-582: validation, then the read of the AuditSession row
FormCheck(sid, st, d) ==
    IF MissingField(sid, st, d) THEN "validation"
    ELSE IF InvalidSession(sid) THEN "invalid"
    ELSE "accepted"

ReadFormOf(r, sid, st, d, next) ==
    IF FormCheck(sid, st, d) # "accepted"
    THEN Finish(r, FormCheck(sid, st, d))
    ELSE /\ Load(r, sid)
         /\ form' = [form EXCEPT ![r] = [status |-> st, description |-> d]]
         /\ Goto(r, next)
         /\ UNCHANGED <<photo_path, upload, audit_sequence, pairs>>

ReadForm(r, in, next) ==
    \E sid \in SessionIdInputs, st \in in.status, d \in DescriptionInputs :
        ReadFormOf(r, sid, st, d, next)

\* the photo of the request is stored (a file is written, photo_path is its
\* reference) or not (photo_path stays None)
PhotoDone(r, tried, stored) ==
    /\ photo_path' = [photo_path EXCEPT ![r] = IF stored THEN PhotoFile ELSE NULL]
    /\ photos' = IF stored THEN photos \cup {PhotoFile} ELSE photos
    /\ upload' = [upload EXCEPT ![r] =
          IF ~tried THEN "none" ELSE IF stored THEN "stored" ELSE "failed"]

\* routes.py 168-218: base64 data first, else the multipart file, else nothing
SubmitPhotoStored(via, ext, decodeOk, storeOk) ==
    CASE via = "base64" -> decodeOk /\ allowed_file(ext) /\ upload_photo_local(ext, storeOk)
      [] via = "file"   -> upload_photo_local(ext, storeOk)
      [] OTHER          -> FALSE

\* routes.py 592-608
MobilePhotoStored(via, ext, decodeOk, storeOk) ==
    via = "base64" /\ decodeOk /\ upload_photo_local(ext, storeOk)

\* pc after the photo block: every exception of the block is caught
\* (routes.py 195, 220, 607), so the handler goes on
AfterPhoto_Abort(stored, next) == IF stored THEN next ELSE "done"
AfterPhoto(stored, next) == next

\* routes.py 230-245 and 610-623: the Audit row is inserted and the loaded
\* AuditSession row updated (UPDATE ... SET used WHERE id), in one commit
CommitAudit(r, in) ==
    /\ session[r].id \in DOMAIN sessions
    /\ Len(audits) < in.max_audits
    /\ audits' = Append(audits,
          Audit(session[r].machine_id, session[r].question_id, form[r].status,
                form[r].description, photo_path[r], audit_sequence[r]))
    /\ sessions' = [sessions EXCEPT ![session[r].id].used = TRUE]
    /\ UNCHANGED <<cycle_start, saved, reply>>
    /\ Finish(r, "ok")

\* db.session.rollback(): routes.py 249-252, 628-631
RollbackAudit(r, error) ==
    /\ Finish(r, error)
    /\ UNCHANGED <<sessions, audits, cycle_start, saved, reply>>

\* routes.py 134-150
SubmitAudit(r, in) ==
    /\ pc[r] = "idle"
    /\ ReadForm(r, in, "submit_count")
    /\ UNCHANGED <<store, cycle_start, saved, reply>>

\* routes.py 152-228: the photo block, then the count of the machine's audits
SubmitCount(r, in) ==
    /\ pc[r] = "submit_count"
    /\ \E o \in {<<via # "none", SubmitPhotoStored(via, ext, decodeOk, storeOk)>> :
                    via \in in.via, ext \in PhotoExts, decodeOk \in BOOLEAN, storeOk \in BOOLEAN} :
          /\ PhotoDone(r, o[1], o[2])
          /\ Goto(r, AfterPhoto(o[2], "submit_commit"))
    /\ audit_sequence' = [audit_sequence EXCEPT ![r] = NextAuditSequence(session[r].machine_id)]
    /\ UNCHANGED <<machines, questions, sessions, audits, cycle_start, saved, reply, session, form, pairs>>

\* routes.py 230-254: the commit succeeds, or raises because the AuditSession
\* row is gone (StaleDataError), or raises because the storage fails
SubmitCommit(r, in) ==
    /\ pc[r] = "submit_commit"
    /\ \/ CommitAudit(r, in)
       \/ session[r].id \notin DOMAIN sessions /\ RollbackAudit(r, "stale_error")
       \/ RollbackAudit(r, "storage_error")
    /\ UNCHANGED <<machines, questions, photos>>

\* routes.py 570-582
SubmitAuditMobile(r, in) ==
    /\ pc[r] = "idle"
    /\ ReadForm(r, in, "mobile_count")
    /\ UNCHANGED <<store, cycle_start, saved, reply>>

\* routes.py 584-608: the count of the machine's audits, then the photo block
MobileCount(r, in) ==
    /\ pc[r] = "mobile_count"
    /\ audit_sequence' = [audit_sequence EXCEPT ![r] = NextAuditSequence(session[r].machine_id)]
    /\ \E o \in {<<via # "none", MobilePhotoStored(via, ext, decodeOk, storeOk)>> :
                    via \in in.via \ {"file"}, ext \in PhotoExts, decodeOk \in BOOLEAN, storeOk \in BOOLEAN} :
          /\ PhotoDone(r, o[1], o[2])
          /\ Goto(r, AfterPhoto(o[2], "mobile_commit"))
    /\ UNCHANGED <<machines, questions, sessions, audits, cycle_start, saved, reply, session, form, pairs>>

\* routes.py 610-631
MobileCommit(r, in) ==
    /\ pc[r] = "mobile_commit"
    /\ \/ CommitAudit(r, in)
       \/ session[r].id \notin DOMAIN sessions /\ RollbackAudit(r, "stale_error")
       \/ RollbackAudit(r, "storage_error")
    /\ UNCHANGED <<machines, questions, photos>>

----------------------------------------------------------------------------
(* reset_session, delete_all_audits, upload_excel *)

\* routes.py 395-407: the DELETE and the new rows are one transaction
ResetSession(r) ==
    /\ pc[r] = "idle"
    /\ \/ \E t \in CreateNewAuditSession(<<>>, Len(machines), Len(questions)) :
             /\ sessions' = t
             /\ cycle_start' = Len(audits)
             /\ UNCHANGED <<saved, reply>>
             /\ Finish(r, "reset")
       \/ /\ Finish(r, "storage_error")  \* storage failure, rollback
          /\ UNCHANGED <<sessions, cycle_start, saved, reply>>
    /\ UNCHANGED <<machines, questions, audits, photos>>

\* routes.py 409-430: the password check, then the photo files of the audits
\* read at line 421 are removed
WrongPassword_None(admin_password) == FALSE
WrongPassword(admin_password) == admin_password # "4321"

DeleteAllAuditsWith(r, admin_password) ==
    /\ pc[r] = "idle"
    /\ IF WrongPassword(admin_password)
       THEN Finish(r, "bad_password") /\ UNCHANGED photos
       ELSE /\ photos' = photos \ {audits[i].photo_path : i \in DOMAIN audits}
            /\ Goto(r, "delete_commit")
            /\ UNCHANGED locals
    /\ UNCHANGED <<machines, questions, sessions, audits, cycle_start, saved, reply>>

DeleteAllAudits(r) ==
    /\ pc[r] = "idle"
    /\ \E admin_password \in PasswordInputs : DeleteAllAuditsWith(r, admin_password)

\* routes.py 433: Audit.query.delete() leaves no row
AuditsAfterDelete_Kept == audits
AuditsAfterDelete == <<>>

\* routes.py 432-448: the two DELETEs and the new rows are one transaction
DeleteCommit(r) ==
    /\ pc[r] = "delete_commit"
    /\ \/ \E t \in CreateNewAuditSession(<<>>, Len(machines), Len(questions)) :
             /\ sessions' = t
             /\ audits' = AuditsAfterDelete
             /\ cycle_start' = 0
             /\ saved' = NoSaved
             /\ UNCHANGED reply
             /\ Finish(r, "deleted")
       \/ /\ Finish(r, "storage_error")  \* storage failure, rollback
          /\ UNCHANGED <<sessions, audits, cycle_start, saved, reply>>
    /\ UNCHANGED <<machines, questions, photos>>

\* utils.py 12-56: fewer than two sheets raises; else the two lists
load_excel_data_raises(file) == file.sheets < 2

\* routes.py 317-339: the four tables are emptied and the new machines and
\* questions inserted, in one commit; a repeated name or code violates the
\* unique constraint (models.py 8, 20) and the except branch rolls back
UploadFile(r, file) ==
    IF load_excel_data_raises(file)
       \/ ~UniqueNames(file.machines) \/ ~UniqueNames(file.questions)
    THEN /\ Finish(r, IF load_excel_data_raises(file)
                       THEN "load_error" ELSE "integrity_error")
         /\ UNCHANGED <<machines, questions, sessions, audits, cycle_start, saved, reply>>
    ELSE /\ machines' = file.machines
         /\ questions' = file.questions
         /\ sessions' = <<>>
         /\ audits' = <<>>
         /\ cycle_start' = 0
         /\ saved' = NoSaved
         /\ UNCHANGED reply
         /\ Goto(r, "upload_create")
         /\ UNCHANGED locals

\* routes.py 296-339
UploadExcel(r, in) ==
    /\ pc[r] = "idle"
    /\ \E file \in in.files : UploadFile(r, file)
    /\ UNCHANGED photos

\* routes.py 452-453, called from line 342
UploadCreate(r) ==
    /\ pc[r] = "upload_create"
    /\ pairs' = [pairs EXCEPT ![r] = <<Len(machines), Len(questions)>>]
    /\ Goto(r, "upload_commit")
    /\ UNCHANGED <<store, cycle_start, saved, reply, session, form, photo_path, upload, audit_sequence>>

\* routes.py 468-472, called from line 342; an IntegrityError is caught at 351
UploadCommit(r) ==
    /\ pc[r] = "upload_commit"
    /\ \/ \E t \in CreateNewAuditSession(sessions, pairs[r][1], pairs[r][2]) :
             /\ sessions' = t
             /\ cycle_start' = IF sessions = <<>> THEN Len(audits) ELSE cycle_start
             /\ UNCHANGED <<saved, reply>>
             /\ Finish(r, "imported")
       \/ /\ CreateNewAuditSession(sessions, pairs[r][1], pairs[r][2]) = {}
          /\ Finish(r, "integrity_error")
          /\ UNCHANGED <<sessions, cycle_start, saved, reply>>
       \/ /\ Finish(r, "storage_error")  \* storage failure, rollback
          /\ UNCHANGED <<sessions, cycle_start, saved, reply>>
    /\ UNCHANGED <<machines, questions, audits, photos>>

----------------------------------------------------------------------------
(* save_action, get_audit_data *)

\* the file save_action writes for an action photo
ActionPhotoFile == "uploads/action_photo.jpg"

\* routes.py 519-550: the action photo is written if its name passes
\* allowed_file and the write works; the four fields are assigned; commit
SaveActionFor(r, audit_id, opis_dzialania, dzialanie_ok, stored) ==
    /\ photos' = IF stored THEN photos \cup {ActionPhotoFile} ELSE photos
    /\ \/ /\ audits' = [audits EXCEPT ![audit_id] =
                  Persist(@, [opis_dzialania |-> opis_dzialania,
                              zdjecie_dzialania |-> IF stored THEN ActionPhotoFile ELSE NULL,
                              dzialanie_ok |-> dzialanie_ok,
                              data_dzialania |-> "utcnow"])]
          /\ saved' = [saved EXCEPT ![audit_id] = opis_dzialania]
          /\ Finish(r, "action_saved")
       \/ /\ Finish(r, "storage_error")  \* storage failure, rollback
          /\ UNCHANGED <<audits, saved>>

\* routes.py 502-562
SaveAction(r) ==
    /\ pc[r] = "idle"
    /\ \E audit_id \in ActionIdInputs, opis_dzialania \in ActionInputs :
          IF audit_id = 0 \/ opis_dzialania = ""
          THEN Finish(r, "validation") /\ UNCHANGED <<audits, photos, saved>>
          ELSE IF audit_id \notin DOMAIN audits
          THEN Finish(r, "invalid_audit") /\ UNCHANGED <<audits, photos, saved>>
          ELSE \E dzialanie_ok \in BOOLEAN :
               \E stored \in {allowed_file(ext) /\ saveOk : ext \in PhotoExts, saveOk \in BOOLEAN} :
                  SaveActionFor(r, audit_id, opis_dzialania, dzialanie_ok, stored)
    /\ UNCHANGED <<machines, questions, sessions, cycle_start, reply>>

\* routes.py 478: Audit.query.filter_by(machine_id, audit_sequence)
AuditsOf(machine_id, sequence) ==
    {i \in DOMAIN audits :
        audits[i].machine_id = machine_id /\ audits[i].audit_sequence = sequence}

\* routes.py 486-500: the JSON of the row; reading a name that is no column raises
AuditDataRaises(id) ==
    \E name \in {"opis_dzialania", "zdjecie_dzialania", "dzialanie_ok", "data_dzialania"} :
        ~HasAttribute(name)

AuditData(id) ==
    [NoReply EXCEPT !.audit_id = id,
                    !.opis_dzialania = ReadAttribute(audits[id], "opis_dzialania")]

\* routes.py 475-500 for one URL
GetAuditDataFor(r, machine_id, sequence) ==
    IF AuditsOf(machine_id, sequence) = {}
    THEN Finish(r, "none") /\ UNCHANGED reply
    ELSE \E id \in AuditsOf(machine_id, sequence) :
            IF AuditDataRaises(id)
            THEN Finish(r, "attribute_error") /\ UNCHANGED reply
            ELSE /\ Finish(r, "audit_data")
                 /\ reply' = [reply EXCEPT ![r] = AuditData(id)]

GetAuditData(r) ==
    /\ pc[r] = "idle"
    /\ \E machine_id \in MachineIdInputs, sequence \in SequenceInputs :
          GetAuditDataFor(r, machine_id, sequence)
    /\ UNCHANGED <<store, cycle_start, saved>>

----------------------------------------------------------------------------
(* dashboard, routes.py 256-294 *)

\* routes.py 271: range(1, 6)
MatrixColumns == 1 .. 5

\* routes.py 267: Audit.query.filter_by(machine_id=machine.id)
MachineAudits(m) == {i \in DOMAIN audits : audits[i].machine_id = m}

\* routes.py 270-277: what cell k of machine m can hold: None (0), or a row of
\* the machine with audit_sequence k, k <= 5
Cells(m, k) ==
    IF AuditsOf(m, k) = {} THEN {0} ELSE AuditsOf(m, k)

\* routes.py 282: a.dzialanie_ok is read for every audit of every machine
DashboardRaises ==
    \E m \in DOMAIN machines : MachineAudits(m) # {} /\ ~HasAttribute("dzialanie_ok")

Dashboard(r) ==
    /\ pc[r] = "idle"
    /\ IF DashboardRaises
       THEN Finish(r, "dashboard_error") /\ UNCHANGED reply
       ELSE /\ Finish(r, "grid")
            /\ \E audit_matrix \in [DOMAIN machines -> [MatrixColumns -> 0 .. Len(audits)]] :
                  /\ \A m \in DOMAIN machines : \A k \in MatrixColumns :
                        audit_matrix[m][k] \in Cells(m, k)
                  /\ reply' = [reply EXCEPT ![r] =
                        [NoReply EXCEPT !.audit_matrix = audit_matrix,
                                        !.total_audits = [m \in DOMAIN machines |->
                                                            Cardinality(MachineAudits(m))]]]
    /\ UNCHANGED <<store, cycle_start, saved>>

----------------------------------------------------------------------------
(* Specifications *)

\* requests run concurrently: r1 runs any handler, r2 the auditor's handlers
Next ==
    \/ \E r \in Requests :
        \/ IndexCount(r)
        \/ IndexFirst(r)
        \/ IndexCreate(r)
        \/ IndexCommit(r)
        \/ IndexAgain(r)
        \/ SubmitAudit(r, Racing)
        \/ SubmitCount(r, Racing)
        \/ SubmitCommit(r, Racing)
        \/ SubmitAuditMobile(r, Racing)
        \/ MobileCount(r, Racing)
        \/ MobileCommit(r, Racing)
        \/ Return(r)
    \/ ResetSession("r1")
    \/ DeleteAllAudits("r1")
    \/ DeleteCommit("r1")
    \/ UploadExcel("r1", Racing)
    \/ UploadCreate("r1")
    \/ UploadCommit("r1")

Spec == Init /\ [][Next]_vars

\* one request at a time: sequential execution of the handlers that write
\* the tables (the dashboard handlers are part of ReviewNext)
SeqNext ==
    \/ IndexCount("r1")
    \/ IndexFirst("r1")
    \/ IndexCreate("r1")
    \/ IndexCommit("r1")
    \/ IndexAgain("r1")
    \/ SubmitAudit("r1", OneAtATime)
    \/ SubmitCount("r1", OneAtATime)
    \/ SubmitCommit("r1", OneAtATime)
    \/ SubmitAuditMobile("r1", OneAtATime)
    \/ MobileCount("r1", OneAtATime)
    \/ MobileCommit("r1", OneAtATime)
    \/ ResetSession("r1")
    \/ DeleteAllAudits("r1")
    \/ DeleteCommit("r1")
    \/ UploadExcel("r1", OneAtATime)
    \/ UploadCreate("r1")
    \/ UploadCommit("r1")
    \/ Return("r1")

SeqSpec == Init /\ [][SeqNext]_vars

\* one request at a time, the status field being any text
StatusNext ==
    \/ IndexCount("r1")
    \/ IndexFirst("r1")
    \/ IndexCreate("r1")
    \/ IndexCommit("r1")
    \/ IndexAgain("r1")
    \/ SubmitAudit("r1", AnyStatus)
    \/ SubmitCount("r1", AnyStatus)
    \/ SubmitCommit("r1", AnyStatus)
    \/ SubmitAuditMobile("r1", AnyStatus)
    \/ MobileCount("r1", AnyStatus)
    \/ MobileCommit("r1", AnyStatus)
    \/ ResetSession("r1")
    \/ DeleteAllAudits("r1")
    \/ DeleteCommit("r1")
    \/ UploadExcel("r1", AnyStatus)
    \/ UploadCreate("r1")
    \/ UploadCommit("r1")
    \/ Return("r1")

StatusSpec == Init /\ [][StatusNext]_vars

\* one request at a time, the handlers of the dashboard included
ReviewNext ==
    \/ IndexCount("r1")
    \/ IndexFirst("r1")
    \/ IndexCreate("r1")
    \/ IndexCommit("r1")
    \/ IndexAgain("r1")
    \/ SubmitAudit("r1", Reviewing)
    \/ SubmitCount("r1", Reviewing)
    \/ SubmitCommit("r1", Reviewing)
    \/ SubmitAuditMobile("r1", Reviewing)
    \/ MobileCount("r1", Reviewing)
    \/ MobileCommit("r1", Reviewing)
    \/ ResetSession("r1")
    \/ DeleteAllAudits("r1")
    \/ DeleteCommit("r1")
    \/ UploadExcel("r1", Reviewing)
    \/ UploadCreate("r1")
    \/ UploadCommit("r1")
    \/ SaveAction("r1")
    \/ GetAuditData("r1")
    \/ Dashboard("r1")
    \/ Return("r1")

ReviewSpec == Init /\ [][ReviewNext]_vars

\* one client works through a cycle: after an import it asks index for a pair
\* (request r2, whose page stays on the client's screen), posts the form of
\* that page to submit_audit with a status and a description (request r1), and
\* asks again when the submission is answered; nobody resets or imports
ClientImport ==
    /\ machines = <<>>
    /\ UploadExcel("r1", Client)

ClientIndex ==
    /\ ~NoData
    /\ pc["r1"] = "idle"
    /\ IndexCount("r2")

\* routes.py 134-150 for the form of the page r2 shows
ClientSubmit ==
    /\ pc["r1"] = "idle"
    /\ pc["r2"] = "done" /\ result["r2"] = "pair"
    /\ ReadFormOf("r1", session["r2"].id, "OK", "d", "submit_count")
    /\ UNCHANGED <<store, cycle_start, saved, reply>>

\* the client leaves the page once its form is answered, or at once if the
\* page shows no pair
ClientLeavePage ==
    /\ pc["r1"] = "done" \/ result["r2"] # "pair"
    /\ Return("r2")

ClientAnswered ==
    /\ pc["r2"] = "idle"
    /\ Return("r1")

ClientNext ==
    \/ ClientImport
    \/ UploadCreate("r1")
    \/ UploadCommit("r1")
    \/ ClientIndex
    \/ IndexFirst("r2")
    \/ IndexCreate("r2")
    \/ IndexCommit("r2")
    \/ IndexAgain("r2")
    \/ ClientSubmit
    \/ SubmitCount("r1", Client)
    \/ SubmitCommit("r1", Client)
    \/ ClientLeavePage
    \/ ClientAnswered

\* every request is eventually served and the client keeps going (weak
\* fairness of the steps); a commit that can succeed does not fail for ever
\* (strong fairness of the successful commits)
ClientSpec ==
    /\ Init /\ [][ClientNext]_vars
    /\ WF_vars(ClientNext)
    /\ SF_vars(SubmitCommit("r1", Client) /\ result'["r1"] = "ok")
    /\ SF_vars(IndexCommit("r2") /\ pc'["r2"] = "index_again")

----------------------------------------------------------------------------
(* Claims *)

Pair(row) == <<row.machine_id, row.question_id>>

\* the Audit rows committed since the current token set was made
CycleAudits == {i \in DOMAIN audits : i > cycle_start}

\* machines x questions, by id
AllPairs == (1 .. Len(machines)) \X (1 .. Len(questions))

\* the token set is the unconsumed cross-product of the machines and questions
FullCycle ==
    /\ Len(sessions) = Len(machines) * Len(questions)
    /\ \A p \in AllPairs :
          Cardinality({i \in DOMAIN sessions : Pair(sessions[i]) = p}) = 1
    /\ \A i \in DOMAIN sessions : ~sessions[i].used

\* request r takes a step of one of the two commits of an audit
AuditCommitStep(r) == pc[r] \in {"submit_commit", "mobile_commit"} /\ pc'[r] = "done"

\* C1: within one cycle no (machine, question) pair gets two Audit rows, and
\* when no unused token is left the cycle's Audit rows correspond one to one
\* to machines x questions, whatever the interleaving of the requests.
C1_OncePerCycle ==
    /\ \A i, j \in CycleAudits : Pair(audits[i]) = Pair(audits[j]) => i = j
    /\ (sessions # <<>> /\ Unused = {}) =>
          /\ {Pair(audits[i]) : i \in CycleAudits} = AllPairs
          /\ Cardinality(CycleAudits) = Cardinality(AllPairs)

\* C2: when an operation that starts a new cycle has run (index after finding
\* no unused token, reset_session, delete_all_audits, upload_excel; a storage
\* failure aside), the token set is the unconsumed cross-product.
C2_NewCycleIsCrossProduct ==
    [][\A r \in Requests :
          (/\ pc[r] # "done" /\ pc'[r] = "done"
           /\ \/ pc[r] \in {"index_commit", "index_again"} /\ result'[r] # "storage_error"
              \/ result'[r] \in {"reset", "deleted", "imported"})
          => FullCycle']_vars

\* C3: with machines and questions and every token consumed, the next index
\* request starts a new cycle of |machines| x |questions| unused tokens
\* (a storage failure aside) and goes on to hand out one of them.
C3_ExhaustionStartsNewCycle ==
    [][\A r \in Requests :
          (/\ pc[r] = "index_commit" /\ pc'[r] # "index_commit"
           /\ sessions # <<>> /\ Unused = {}
           /\ Len(machines) > 0 /\ Len(questions) > 0
           /\ result'[r] # "storage_error")
          => /\ pc'[r] = "index_again"
             /\ Cardinality(Unused') = Len(machines) * Len(questions)]_vars

\* C5: an audit commit succeeds only on a token that is unconsumed in the
\* committed database, so no token gets a second Audit row.
C5_OneWinner ==
    [][\A r \in Requests :
          (AuditCommitStep(r) /\ result'[r] = "ok")
          => ~sessions[session[r].id].used]_vars

\* request r takes a step of index that reads the database
IndexReadStep(r) ==
    \/ pc[r] = "idle" /\ (pc'[r] = "index_first" \/ (pc'[r] = "done" /\ result'[r] = "no_data"))
    \/ pc[r] \in {"index_first", "index_again"} /\ pc'[r] # pc[r]

\* every token of machine m is consumed
MachineDone(m) ==
    /\ \E i \in DOMAIN sessions : sessions[i].machine_id = m
    /\ \A i \in DOMAIN sessions : sessions[i].machine_id = m => sessions[i].used

C6_InvalidRejected ==
    [][\A r \in Requests :
          /\ (pc[r] = "idle" /\ pc'[r] \in {"submit_count", "mobile_count"})
                => /\ session'[r].id \in DOMAIN sessions
                   /\ ~sessions[session'[r].id].used
          /\ (pc[r] = "idle" /\ pc'[r] = "done" /\ result'[r] = "invalid")
                => UNCHANGED store
          /\ (AuditCommitStep(r) /\ result'[r] = "ok")
                => ~sessions[session[r].id].used]_vars

\* C6 witness: a submission was rejected as invalid while the only Audit row
\* made so far has consumed a token
C6_Witness ==
    /\ pc["r1"] = "done" /\ result["r1"] = "invalid"
    /\ Len(audits) = 1
    /\ \E i \in DOMAIN sessions : sessions[i].used

\* every consumed token has an Audit row of its machine and question
ConsumedHaveAudit ==
    \A i \in DOMAIN sessions :
        sessions[i].used => \E j \in DOMAIN audits : Pair(audits[j]) = Pair(sessions[i])

\* C7: an audit commit either adds the Audit row and marks the token used, or
\* (on failure) does neither; and every consumed token has an Audit row with
\* its machine and question.
C7_RecordAndTokenTogether ==
    [][/\ \A r \in Requests :
             AuditCommitStep(r) =>
                IF result'[r] = "ok"
                THEN /\ Len(audits') = Len(audits) + 1
                     /\ Pair(audits'[Len(audits')]) = Pair(session[r])
                     /\ sessions'[session[r].id].used
                ELSE UNCHANGED <<sessions, audits>>
       /\ ConsumedHaveAudit']_vars

\* C8: in sequential execution every Audit row carries as audit_sequence its
\* rank among the Audit rows of its machine: 1, 2, 3, ... in commit order.
C8_SequencePerMachine ==
    \A i \in DOMAIN audits :
        audits[i].audit_sequence =
            Cardinality({j \in 1 .. i : audits[j].machine_id = audits[i].machine_id})

\* C8 witness: the second audit of a machine, on its other question, after a
\* reset_session, has audit_sequence 2
C8_Witness ==
    /\ Len(audits) = 2 /\ cycle_start = 1
    /\ audits[1].machine_id = audits[2].machine_id
    /\ audits[1].question_id # audits[2].question_id
    /\ audits[2].audit_sequence = 2

\* C9: a submission whose photo upload failed goes on to the commit, and the
\* commit (a storage failure aside) adds the Audit row with a NULL photo_path,
\* marks the token used and answers success.
C9_PhotoFailureKeepsAudit ==
    [][\A r \in Requests :
          /\ (pc[r] \in {"submit_count", "mobile_count"} /\ pc'[r] # pc[r])
                => pc'[r] \in {"submit_commit", "mobile_commit"}
          /\ (AuditCommitStep(r) /\ upload[r] = "failed" /\ result'[r] # "storage_error")
                => /\ result'[r] = "ok"
                   /\ Len(audits') = Len(audits) + 1
                   /\ audits'[Len(audits')].photo_path = NULL
                   /\ sessions'[session[r].id].used]_vars

\* C9 witness: an audit was committed although its photo upload had failed
C9_Witness ==
    /\ pc["r1"] = "done" /\ result["r1"] = "ok" /\ upload["r1"] = "failed"
    /\ audits # <<>> /\ audits[Len(audits)].photo_path = NULL

\* C10: a submission is accepted only with a session id, a status and a
\* description; one rejected by the validation changes no table and writes
\* no photo.
C10_ValidationNoChange ==
    [][\A r \in Requests :
          /\ (pc[r] = "idle" /\ pc'[r] \in {"submit_count", "mobile_count"})
                => /\ session'[r].id # 0
                   /\ form'[r].status # ""
                   /\ form'[r].description # ""
          /\ (pc[r] = "idle" /\ pc'[r] = "done" /\ result'[r] = "validation")
                => UNCHANGED store]_vars

\* C10 witness: a submission was rejected by the validation while an unused
\* token existed
C10_Witness ==
    /\ pc["r1"] = "done" /\ result["r1"] = "validation"
    /\ Unused # {}

\* C11: every Audit row has status OK or NOK.
C11_StatusOkOrNok ==
    \A i \in DOMAIN audits : audits[i].status \in {"OK", "NOK"}

\* request r takes a step that starts a new cycle: the token commit of index,
\* reset_session, or one of the two commits of upload_excel
NewCycleStep(r) ==
    \/ pc[r] = "index_commit" /\ pc'[r] = "index_again"
    \/ pc[r] = "idle" /\ pc'[r] = "done" /\ result'[r] = "reset"
    \/ pc[r] = "idle" /\ pc'[r] = "upload_create"
    \/ pc[r] = "upload_commit" /\ pc'[r] = "done" /\ result'[r] = "imported"

\* C12: a step that starts a new cycle (index on exhaustion, reset_session,
\* upload_excel) leaves the Audit rows as they were, and Audit rows are
\* removed only by the commit of delete_all_audits.
C12_NewCycleKeepsAudits ==
    [][/\ \A r \in Requests : NewCycleStep(r) => audits' = audits
       /\ (Len(audits') < Len(audits))
             => \E r \in Requests : pc[r] = "delete_commit" /\ result'[r] = "deleted"]_vars

\* a workbook with fewer than two sheets, no machine name, or no question row
\* that has a code and a description
Malformed(file) == file.sheets < 2 \/ file.machines = <<>> \/ file.questions = <<>>

\* C13: upload_excel with a malformed workbook answers with an error and
\* leaves machines, questions, tokens and Audit rows as they were.
C13_MalformedImportNoChange ==
    [][\A r \in Requests : \A file \in OneAtATime.files :
          (pc[r] = "idle" /\ Malformed(file) /\ UploadFile(r, file) /\ UNCHANGED photos)
          => /\ pc'[r] = "done"
             /\ result'[r] \in {"load_error", "integrity_error", "storage_error"}
             /\ UNCHANGED <<machines, questions, sessions, audits>>]_vars

\* C14: the commit of a delete_all_audits with the right password leaves no
\* Audit row and the unconsumed cross-product of the machines and questions
\* as the token set, and the next audit of any machine gets audit_sequence 1.
C14_AdminReset ==
    [][\A r \in Requests :
          (pc[r] = "delete_commit" /\ pc'[r] = "done" /\ result'[r] = "deleted")
          => /\ audits' = <<>>
             /\ FullCycle'
             /\ Unused' = DOMAIN sessions'
             /\ \A m \in DOMAIN machines' : NextAuditSequence(m)' = 1]_vars

\* C14 witness: delete_all_audits has succeeded and left unconsumed tokens
\* and no Audit row
C14_Witness ==
    /\ pc["r1"] = "done" /\ result["r1"] = "deleted"
    /\ audits = <<>> /\ sessions # <<>> /\ Unused = DOMAIN sessions

\* C15: get_audit_data on an Audit row for which a save_action has succeeded
\* returns the data of that row, with the opis_dzialania of the last
\* save_action that succeeded on it.
C15_ActionReadBack ==
    [][\A r \in Requests : \A m \in MachineIdInputs, n \in SequenceInputs :
          (/\ pc[r] = "idle"
           /\ GetAuditDataFor(r, m, n)
           /\ UNCHANGED <<store, cycle_start, saved>>
           /\ \E i \in AuditsOf(m, n) \cap DOMAIN saved : saved[i] # "")
          => /\ result'[r] = "audit_data"
             /\ reply'[r].audit_id \in AuditsOf(m, n) \cap DOMAIN saved
             /\ reply'[r].opis_dzialania = saved[reply'[r].audit_id]]_vars

\* C16: dashboard answers with the grid: for every machine the cells 1..5,
\* cell k holding the Audit row of the machine with audit_sequence k or
\* nothing when there is none, and total_audits counting all rows of the
\* machine; and it changes no table.
C16_Grid ==
    [][\A r \in Requests :
          Dashboard(r)
          => /\ result'[r] = "grid"
             /\ UNCHANGED store
             /\ DOMAIN reply'[r].audit_matrix = DOMAIN machines
             /\ \A m \in DOMAIN machines :
                   /\ DOMAIN reply'[r].audit_matrix[m] = 1 .. 5
                   /\ \A k \in 1 .. 5 : reply'[r].audit_matrix[m][k] \in Cells(m, k)
                   /\ reply'[r].total_audits[m] = MachineAuditCount(m)]_vars

\* request r commits the deletion of the token set: reset_session,
\* delete_all_audits, or the first commit of upload_excel
DiscardStep(r) ==
    \/ pc[r] = "idle" /\ pc'[r] = "done" /\ result'[r] = "reset"
    \/ pc[r] = "delete_commit" /\ pc'[r] = "done" /\ result'[r] = "deleted"
    \/ pc[r] = "idle" /\ pc'[r] = "upload_create"

\* C17: the commit that deletes the old tokens also installs the new token
\* set, the unconsumed cross-product of the machines and questions, so that
\* no request sees the one without the other.
C17_DiscardAndRefillTogether ==
    [][\A r \in Requests :
          (DiscardStep(r) /\ sessions # <<>>) => FullCycle']_vars

\* C18: index on an empty machine or question table answers "no data" and
\* changes no table; "no data" is answered only then; and "cycle complete" is
\* answered only with machines and questions present, after a new token set
\* was committed, when no unused token is found.
C18_NoDataAndCompleted ==
    [][\A r \in Requests :
          /\ (IndexCount(r) /\ (machines = <<>> \/ questions = <<>>))
                => pc'[r] = "done" /\ result'[r] = "no_data" /\ UNCHANGED store
          /\ (pc[r] # "done" /\ pc'[r] = "done" /\ result'[r] = "no_data")
                => (machines = <<>> \/ questions = <<>>) /\ UNCHANGED store
          /\ (pc[r] # "done" /\ pc'[r] = "done" /\ result'[r] = "completed")
                => /\ machines # <<>> /\ questions # <<>>
                   /\ pc[r] = "index_again" /\ Unused = {}]_vars

\* C19: two Audit rows of one machine made from different tokens (different
\* questions) never carry the same audit_sequence.
C19_DistinctSequence ==
    \A i, j \in DOMAIN audits :
        (/\ audits[i].machine_id = audits[j].machine_id
         /\ audits[i].question_id # audits[j].question_id)
        => audits[i].audit_sequence # audits[j].audit_sequence

\* C20: in every state at most one token exists per (machine, question)
\* pair, also when two index requests both try to create the token set and
\* when index runs between the two commits of an import.
C20_OneTokenPerPair ==
    \A i, j \in DOMAIN sessions :
        Pair(sessions[i]) = Pair(sessions[j]) => i = j

\* C20 witness: an index request that found no unused token failed to commit
\* its token set because another request had committed the tokens meanwhile
C20_Witness ==
    /\ pc["r2"] = "done" /\ result["r2"] = "integrity_error"
    /\ Unused # {}

\* C21: in every step that is not the discard of the token set by
\* reset_session, delete_all_audits or upload_excel, every token stays in the
\* table with its pair, a consumed token stays consumed, and a token becomes
\* consumed only by the successful commit of a submission made for its id.
C21_ConsumedMonotone ==
    [][\/ \E r \in Requests : DiscardStep(r)
       \/ \A i \in DOMAIN sessions :
             /\ i \in DOMAIN sessions'
             /\ Pair(sessions'[i]) = Pair(sessions[i])
             /\ sessions[i].used => sessions'[i].used
             /\ (~sessions[i].used /\ sessions'[i].used)
                   => \E r \in Requests :
                         AuditCommitStep(r) /\ result'[r] = "ok" /\ session[r].id = i]_vars

\* C21 witness: a submission has consumed one token while another is unused
C21_Witness ==
    /\ pc["r1"] = "done" /\ result["r1"] = "ok"
    /\ \E i, j \in DOMAIN sessions : sessions[i].used /\ ~sessions[j].used

\* C22: a token reference that index handed out with one pair never creates
\* an Audit row for another pair: when a submission of token id i is
\* committed while a response of index shows id i, the row is for the pair
\* that response shows (the pair of an id changes only when the token set is
\* discarded and made again, so a different pair means the shown reference
\* is from before the discard and the submission was read after it).
C22_StaleReferenceRejected ==
    [][\A r, h \in Requests :
          (/\ AuditCommitStep(r) /\ result'[r] = "ok"
           /\ pc[h] = "done" /\ result[h] = "pair"
           /\ session[h].id = session[r].id)
             => Pair(audits'[Len(audits')]) = Pair(session[h])]_vars

\* request r commits the deletion of the Audit rows: delete_all_audits, or
\* the first commit of upload_excel
AuditDeleteStep(r) ==
    \/ pc[r] = "delete_commit" /\ pc'[r] = "done" /\ result'[r] = "deleted"
    \/ pc[r] = "idle" /\ pc'[r] = "upload_create"

\* C23: in every step that does not delete the Audit rows, every Audit row
\* stays in the table with its machine, question, status, description, photo
\* reference and audit_sequence as they were; a successful save_action leaves
\* every Audit row as it was in these fields and changes no token.
C23_AuditFieldsFrozen ==
    [][/\ \/ \E r \in Requests : AuditDeleteStep(r)
          \/ \A i \in DOMAIN audits : i \in DOMAIN audits' /\ audits'[i] = audits[i]
       /\ \A r \in Requests :
             (pc[r] = "idle" /\ result'[r] = "action_saved")
                => /\ sessions' = sessions
                   /\ \A i \in DOMAIN audits : audits'[i] = audits[i]]_vars

\* C23 witness: save_action has answered success for an Audit row that
\* carries a description
C23_Witness ==
    /\ pc["r1"] = "done" /\ result["r1"] = "action_saved"
    /\ \E i \in DOMAIN audits : saved[i] # "" /\ audits[i].description # ""

\* C24: delete_all_audits with a password other than the configured one ends
\* with the error answer and leaves every machine, question, token, Audit row
\* and stored photo as it was; a save_action that is refused for an unknown
\* audit id or an empty description leaves every table row, stored photo and
\* saved action as it was.
C24_RefusedChangesNothing ==
    [][\A r \in Requests :
          /\ DeleteAllAuditsWith(r, "0000")
                => result'[r] = "bad_password" /\ UNCHANGED <<store, cycle_start, saved>>
          /\ (SaveAction(r) /\ result'[r] \in {"validation", "invalid_audit"})
                => UNCHANGED <<store, cycle_start, saved>>]_vars

\* C24 witness: a request with a wrong password was refused while tokens, an
\* Audit row and a stored photo exist
C24_Witness ==
    /\ pc["r1"] = "done" /\ result["r1"] = "bad_password"
    /\ sessions # <<>> /\ audits # <<>> /\ photos # {}

\* C25: on each upload path (multipart file or base64 in submit_audit, base64
\* in submit_audit_mobile), a photo whose data decodes and whose write does
\* not fail is stored, and the Audit row gets its reference, exactly when
\* its extension, in lower case, is one of png, jpg, jpeg, gif, heic, heif.
C25_AllowListedPhotoStored ==
    [][\A r \in Requests, ext \in PhotoExts :
          /\ \A via \in {"file", "base64"} :
                (pc[r] = "submit_count"
                   /\ PhotoDone(r, TRUE, SubmitPhotoStored(via, ext, TRUE, TRUE)))
                => (photo_path'[r] # NULL
                      <=> Lower(ext) \in {"png", "jpg", "jpeg", "gif", "heic", "heif"})
          /\ (pc[r] = "mobile_count"
                /\ PhotoDone(r, TRUE, MobilePhotoStored("base64", ext, TRUE, TRUE)))
                => (photo_path'[r] # NULL
                      <=> Lower(ext) \in {"png", "jpg", "jpeg", "gif", "heic", "heif"})]_vars

\* C26: the client that asks for a pair and submits a valid form for it, again
\* and again, is never refused (no validation error, no invalid or used token,
\* no vanished token), eventually reaches a state where every token is
\* consumed, and whenever every token is consumed exactly
\* |machines| x |questions| Audit rows have been committed.
C26_ClientCompletesCycle ==
    /\ [](result["r1"] \notin {"validation", "invalid", "stale_error"})
    /\ []((sessions # <<>> /\ Unused = {})
             => Len(audits) = Len(machines) * Len(questions))
    /\ <>(sessions # <<>> /\ Unused = {})

\* C26 witness: the cycle of two machines and two questions is complete after
\* four submissions
C26_Witness ==
    /\ Len(machines) = 2 /\ Len(questions) = 2
    /\ sessions # <<>> /\ Unused = {}
    /\ Len(audits) = 4

\* C27: in every state every AuditSession row and every Audit row names a
\* machine and a question that are rows of their tables.
C27_ReferencesExist ==
    /\ \A i \in DOMAIN sessions :
          /\ sessions[i].machine_id \in DOMAIN machines
          /\ sessions[i].question_id \in DOMAIN questions
    /\ \A i \in DOMAIN audits :
          /\ audits[i].machine_id \in DOMAIN machines
          /\ audits[i].question_id \in DOMAIN questions

\* C28: submit_audit and submit_audit_mobile do the same to the tables.  Each
\* of them, for every token id, status and description, goes on exactly when
\* the three fields are present and the id is that of an unused token, and
\* then holds the submitted values; and the commit of each of them appends the
\* Audit row made of the token's machine and question, the submitted status
\* and description, the reference of the photo the request stored (NULL if
\* none) and the count of the machine's Audit rows plus one, and consumes that
\* token and no other.
C28_SameOutcome ==
    [][\A r \in Requests :
          /\ \A next \in {"submit_count", "mobile_count"} :
             \A sid \in SessionIdInputs, st \in {"", "OK"}, d \in DescriptionInputs :
                (pc[r] = "idle" /\ ReadFormOf(r, sid, st, d, next))
                   => /\ pc'[r] = next
                         <=> /\ sid # 0 /\ st # "" /\ d # ""
                             /\ sid \in DOMAIN sessions
                             /\ ~sessions[sid].used
                      /\ pc'[r] = next
                         => /\ session'[r].id = sid
                            /\ form'[r] = [status |-> st, description |-> d]
                      /\ pc'[r] # next => pc'[r] = "done"
          /\ \A at \in {"submit_commit", "mobile_commit"} :
                (pc[r] = at /\ pc'[r] = "done" /\ result'[r] = "ok")
                   => LET t == sessions[session[r].id] IN
                      /\ audits' = Append(audits,
                            [machine_id |-> t.machine_id, question_id |-> t.question_id,
                             status |-> form[r].status, description |-> form[r].description,
                             photo_path |-> photo_path[r],
                             audit_sequence |-> MachineAuditCount(t.machine_id) + 1])
                      /\ sessions' = [sessions EXCEPT ![session[r].id].used = TRUE]
                      /\ UNCHANGED <<machines, questions, photos>>]_vars

\* C28 witness: the second Audit row of a machine has been committed with a
\* stored photo
C28_Witness ==
    /\ pc["r1"] = "done" /\ result["r1"] = "ok" /\ upload["r1"] = "stored"
    /\ Len(audits) >= 2
    /\ audits[Len(audits)].photo_path # NULL
    /\ audits[Len(audits)].audit_sequence = 2

====
